---------------------------- MODULE Spec2Model ----------------------------
(***************************************************************************)
(* Model of the football-data-processor pipeline:                          *)
(*   lambdas/event_ingest/app.py    the Producer and the Topic Provisioner *)
(*   lambdas/event_consumer/app.py  the Batch Consumer                     *)
(*                                                                         *)
(* Text is modelled as a sequence of one-character strings, so that        *)
(* parsing, formatting and concatenation are computed and not assumed.     *)
(***************************************************************************)
EXTENDS Integers, Sequences, FiniteSets, TLC

VARIABLES
    fn_in,            \* input handed to the pure function under check
    fn_out,           \* what the function returned
    fn_pc,            \* "input" before the call, "returned" after it
    \* ---- Batch Consumer (lambdas/event_consumer/app.py) ----
    event,            \* the event of the current invocation of lambda_handler
    c_pc,             \* where the invocation stands
    part,             \* partition the loop is at (position in event['records'])
    idx,              \* record of that partition the loop is at, 0 before its first
    total_records,    \* lambda_handler's local
    processed_items,  \* lambda_handler's local
    success_count,    \* lambda_handler's local
    write_pos,        \* first item of processed_items not yet sent by the batch writer
    store,            \* the items of the DynamoDB table
    deliveries,       \* invocations so far
    store_at_start,   \* the table when the current invocation began
    prev_full,        \* the previous invocation had this same event and wrote all it decoded
    offset,           \* per partition: the records the consumer group has committed
    other,            \* a second invocation running at the same time: its items, its writer
    \* ---- Producer (lambdas/event_ingest/app.py) ----
    prod,             \* per producer instance: the invocation it is handling
    topics,           \* the topics of the cluster, in creation order
    log,              \* the records of the topic, in append order
    uuid_next,        \* number of the next uuid4 drawn
    submits           \* submissions so far

fnVars == <<fn_in, fn_out, fn_pc>>

consumerVars == <<event, c_pc, part, idx, total_records, processed_items, success_count,
                  write_pos, store, deliveries, store_at_start, prev_full, offset, other>>

producerVars == <<prod, topics, log, uuid_next, submits>>

vars == <<fn_in, fn_out, fn_pc, event, c_pc, part, idx, total_records, processed_items,
          success_count, write_pos, store, deliveries, store_at_start, prev_full,
          offset, other, prod, topics, log, uuid_next, submits>>

(***************************************************************************)
(* Text helpers                                                            *)
(***************************************************************************)
DigitChars == <<"0", "1", "2", "3", "4", "5", "6", "7", "8", "9">>

IsDigit(c) == \E i \in 1..10 : DigitChars[i] = c

DigitVal(c) == (CHOOSE i \in 1..10 : DigitChars[i] = c) - 1

AllDigits(s) == \A i \in 1..Len(s) : IsDigit(s[i])

\* int(s) for a non-empty run of decimal digits
RECURSIVE ParseInt(_)
ParseInt(s) ==
    IF Len(s) = 0 THEN 0
    ELSE 10 * ParseInt(SubSeq(s, 1, Len(s) - 1)) + DigitVal(s[Len(s)])

\* str(n) for n >= 0, as an f-string renders an int
RECURSIVE IntToStr(_)
IntToStr(n) ==
    IF n < 10 THEN <<DigitChars[n + 1]>>
    ELSE IntToStr(n \div 10) \o <<DigitChars[(n % 10) + 1]>>

\* zero-padded decimal of width w (used to write the inputs down)
RECURSIVE Pad(_, _)
Pad(n, w) ==
    IF w = 0 THEN <<>>
    ELSE Pad(n \div 10, w - 1) \o <<DigitChars[(n % 10) + 1]>>

\* the JSON null / Python None, distinct from every text
None == <<"<None>">>

NoneText == <<"N", "o", "n", "e">>

\* how an f-string renders a value: text as itself, None as "None"
FStr(v) == IF v = None THEN NoneText ELSE v

\* timestamp_str.replace('Z', '+00:00'): every 'Z' is replaced
UtcOffsetText == <<"+", "0", "0", ":", "0", "0">>

RECURSIVE ReplaceZ(_)
ReplaceZ(s) ==
    IF Len(s) = 0 THEN <<>>
    ELSE (IF Head(s) = "Z" THEN UtcOffsetText ELSE <<Head(s)>>) \o ReplaceZ(Tail(s))

(***************************************************************************)
(* datetime.fromisoformat, for the shapes                                  *)
(*   YYYY-MM-DD  and  YYYY-MM-DD<sep>HH[:MM[:SS]][(+|-)HH:MM]              *)
(* Anything else is a ValueError, modelled as the value ParseError.        *)
(***************************************************************************)
ParseError == [error |-> "ValueError"]

IsLeap(y) == (y % 4 = 0) /\ ((y % 100 # 0) \/ (y % 400 = 0))

DaysInMonth(y, m) ==
    IF m = 2 THEN (IF IsLeap(y) THEN 29 ELSE 28)
    ELSE IF m \in {4, 6, 9, 11} THEN 30 ELSE 31

\* the position of the first '+' or '-' of s, 0 when there is none
RECURSIVE SignPos(_, _)
SignPos(s, i) ==
    IF i > Len(s) THEN 0
    ELSE IF s[i] \in {"+", "-"} THEN i
    ELSE SignPos(s, i + 1)

\* HH[:MM[:SS]] with the fields in range
ValidClock(t) ==
    /\ Len(t) \in {2, 5, 8}
    /\ AllDigits(SubSeq(t, 1, 2)) /\ ParseInt(SubSeq(t, 1, 2)) \in 0..23
    /\ Len(t) >= 5 =>
          /\ t[3] = ":"
          /\ AllDigits(SubSeq(t, 4, 5)) /\ ParseInt(SubSeq(t, 4, 5)) \in 0..59
    /\ Len(t) = 8 =>
          /\ t[6] = ":"
          /\ AllDigits(SubSeq(t, 7, 8)) /\ ParseInt(SubSeq(t, 7, 8)) \in 0..59

\* HH:MM of a UTC offset
ValidOffset(o) ==
    /\ Len(o) = 5
    /\ o[3] = ":"
    /\ AllDigits(SubSeq(o, 1, 2)) /\ ParseInt(SubSeq(o, 1, 2)) \in 0..23
    /\ AllDigits(SubSeq(o, 4, 5)) /\ ParseInt(SubSeq(o, 4, 5)) \in 0..59

ValidTimePart(t) ==
    LET p == SignPos(t, 1) IN
    IF p = 0 THEN ValidClock(t)
    ELSE ValidClock(SubSeq(t, 1, p - 1)) /\ ValidOffset(SubSeq(t, p + 1, Len(t)))

ValidDatePart(d) ==
    /\ Len(d) = 10
    /\ d[5] = "-" /\ d[8] = "-"
    /\ AllDigits(SubSeq(d, 1, 4)) /\ AllDigits(SubSeq(d, 6, 7)) /\ AllDigits(SubSeq(d, 9, 10))
    /\ LET y == ParseInt(SubSeq(d, 1, 4))
           m == ParseInt(SubSeq(d, 6, 7))
           dd == ParseInt(SubSeq(d, 9, 10))
       IN  /\ y \in 1..9999
           /\ m \in 1..12
           /\ dd \in 1..DaysInMonth(y, m)

fromisoformat(s) ==
    IF Len(s) < 10 \/ Len(s) = 11 THEN ParseError
    ELSE IF ~ValidDatePart(SubSeq(s, 1, 10)) THEN ParseError
    ELSE IF Len(s) > 10 /\ ~ValidTimePart(SubSeq(s, 12, Len(s))) THEN ParseError
    ELSE [year  |-> ParseInt(SubSeq(s, 1, 4)),
          month |-> ParseInt(SubSeq(s, 6, 7))]

(***************************************************************************)
(* derive_season                                                           *)
(***************************************************************************)
UnknownText == <<"u", "n", "k", "n", "o", "w", "n">>

SeasonText(a, b) == IntToStr(a) \o <<"/">> \o IntToStr(b)

\* a bug to compare with: August counted into the previous season
derive_season_late(timestamp_str) ==
    IF timestamp_str = None THEN UnknownText
    ELSE LET timestamp == fromisoformat(ReplaceZ(timestamp_str)) IN
         IF timestamp = ParseError THEN UnknownText
         ELSE IF timestamp.month <= 8
              THEN SeasonText(timestamp.year - 1, timestamp.year)
              ELSE SeasonText(timestamp.year, timestamp.year + 1)

\* a value that is no text has no replace(): the AttributeError is caught too
derive_season(timestamp_str) ==
    IF timestamp_str = None THEN UnknownText
    ELSE LET timestamp == fromisoformat(ReplaceZ(timestamp_str)) IN
         IF timestamp = ParseError THEN UnknownText
         ELSE IF timestamp.month < 8
              THEN SeasonText(timestamp.year - 1, timestamp.year)
              ELSE SeasonText(timestamp.year, timestamp.year + 1)


(***************************************************************************)
(* Dictionaries (Python dict / JSON object): functions on field names      *)
(***************************************************************************)
Has(d, k) == k \in DOMAIN d

Get(d, k, default) == IF k \in DOMAIN d THEN d[k] ELSE default

Put(d, k, v) == [x \in (DOMAIN d) \cup {k} |-> IF x = k THEN v ELSE d[x]]

\* marks an optional field the input leaves out; never a value of a dict
Absent == <<"<absent>">>

Opt(k, v) == IF v = Absent THEN [x \in {} |-> v] ELSE [x \in {k} |-> v]

(***************************************************************************)
(* The wire format of a record value: base64 of the UTF-8 bytes of a JSON  *)
(* text.  Each layer either carries the next one or is undecodable.        *)
(***************************************************************************)
DecodeError == [error |-> "decode"]

B64(bytes) == [enc |-> "base64", of |-> bytes]
BadB64 == [enc |-> "not-base64"]

Utf8(text) == [enc |-> "utf-8", of |-> text]
BadUtf8 == [enc |-> "not-utf-8"]

JsonText(doc) == [enc |-> "json", of |-> doc]
BadJson == [enc |-> "not-json"]

JsonObject(fields) == [type |-> "object", fields |-> fields]
JsonArray == [type |-> "array"]

b64decode(v) == IF v.enc = "base64" THEN v.of ELSE DecodeError

utf8_decode(b) == IF b = DecodeError THEN DecodeError
                  ELSE IF b.enc = "utf-8" THEN b.of ELSE DecodeError

json_loads(s) == IF s = DecodeError THEN DecodeError
                 ELSE IF s.enc = "json" THEN s.of ELSE DecodeError

\* json.dumps(v).encode('utf-8'), then the event source's base64 envelope
Encode(fields) == B64(Utf8(JsonText(JsonObject(fields))))

(***************************************************************************)
(* process_record                                                          *)
(***************************************************************************)
\* the result of a record that was dropped (the function returns None)
Dropped == [returned |-> "None"]

HashText == <<"#">>

\* a bug to compare with: the season is not written into the event
Enrich_NoSeason(decoded) ==
    LET event_type == Get(decoded, "event_type", UnknownText)
        e2 == IF Has(decoded, "timestamp") /\ ~Has(decoded, "event_timestamp")
              THEN Put(decoded, "event_timestamp", decoded["timestamp"])
              ELSE decoded
        event_timestamp == Get(e2, "event_timestamp", <<>>)
    IN  Put(e2, "event_type_timestamp",
            FStr(event_type) \o HashText \o FStr(event_timestamp))

\* a bug to compare with: event_timestamp is always copied from timestamp
Enrich_AlwaysBackfill(decoded) ==
    LET event_type == Get(decoded, "event_type", UnknownText)
        timestamp  == Get(decoded, "timestamp", <<>>)
        season     == derive_season(timestamp)
        e1 == Put(decoded, "season", season)
        e2 == IF Has(e1, "timestamp")
              THEN Put(e1, "event_timestamp", e1["timestamp"])
              ELSE e1
        event_timestamp == Get(e2, "event_timestamp", <<>>)
    IN  Put(e2, "event_type_timestamp",
            FStr(event_type) \o HashText \o FStr(event_timestamp))

\* a bug to compare with: a season the client sent is kept
Enrich_KeepClientSeason(decoded) ==
    LET event_type == Get(decoded, "event_type", UnknownText)
        timestamp  == Get(decoded, "timestamp", <<>>)
        season     == derive_season(timestamp)
        e1 == IF Has(decoded, "season") THEN decoded ELSE Put(decoded, "season", season)
        e2 == IF Has(e1, "timestamp") /\ ~Has(e1, "event_timestamp")
              THEN Put(e1, "event_timestamp", e1["timestamp"])
              ELSE e1
        event_timestamp == Get(e2, "event_timestamp", <<>>)
    IN  Put(e2, "event_type_timestamp",
            FStr(event_type) \o HashText \o FStr(event_timestamp))

\* the enrichment of a decoded event (lines 58-78)
Enrich(decoded) ==
    LET event_type == Get(decoded, "event_type", UnknownText)
        timestamp  == Get(decoded, "timestamp", <<>>)
        season     == derive_season(timestamp)
        e1 == Put(decoded, "season", season)
        e2 == IF Has(e1, "timestamp") /\ ~Has(e1, "event_timestamp")
              THEN Put(e1, "event_timestamp", e1["timestamp"])
              ELSE e1
        event_timestamp == Get(e2, "event_timestamp", <<>>)
    IN  Put(e2, "event_type_timestamp",
            FStr(event_type) \o HashText \o FStr(event_timestamp))

\* a bug to compare with: an event whose season cannot be derived is dropped
process_record_strict(record) ==
    IF ~Has(record, "value") THEN Dropped
    ELSE LET doc == json_loads(utf8_decode(b64decode(record["value"]))) IN
         IF doc = DecodeError THEN Dropped
         ELSE IF doc.type # "object" THEN Dropped
         ELSE IF derive_season(Get(doc.fields, "timestamp", <<>>)) = UnknownText
         THEN Dropped
         ELSE Enrich(doc.fields)

\* lines 47-82: None when the value is missing or cannot be decoded
process_record(record) ==
    IF ~Has(record, "value") THEN Dropped
    ELSE LET doc == json_loads(utf8_decode(b64decode(record["value"]))) IN
         IF doc = DecodeError THEN Dropped
         ELSE IF doc.type # "object" THEN Dropped
         ELSE Enrich(doc.fields)


(***************************************************************************)
(* Inputs of the pure-function specifications                              *)
(***************************************************************************)
DashText == <<"-">>
ColonText == <<":">>

DateText(y, m, d) == Pad(y, 4) \o DashText \o Pad(m, 2) \o DashText \o Pad(d, 2)

ClockText(h, mi, s) == Pad(h, 2) \o ColonText \o Pad(mi, 2) \o ColonText \o Pad(s, 2)

\* "YYYY-MM-DDTHH:MM:SSZ"
IsoZ(y, m, d, h, mi, s) == DateText(y, m, d) \o <<"T">> \o ClockText(h, mi, s) \o <<"Z">>

SeasonYears == {1, 2023, 2024, 9999}
SeasonMonths == 0..13
SeasonDays == {1, 29, 31}
\* what follows the date: nothing, or a clock with or without an offset
SeasonTails ==
    { <<>> } \cup
    { <<"T">> \o ClockText(c[1], c[2], c[3]) \o z :
        c \in { <<0, 0, 0>>, <<23, 59, 59>> },
        z \in { <<>>, <<"Z">>, <<"+", "0", "2", ":", "0", "0">> } }

SeasonInputs ==
    { [kind |-> "date", y |-> y, m |-> m, d |-> d,
       text |-> DateText(y, m, d) \o tl] :
        y \in SeasonYears, m \in SeasonMonths, d \in SeasonDays, tl \in SeasonTails }
    \cup
    { [kind |-> "other", text |-> x] :
        x \in { <<>>, None, <<"Z">>, <<"s", "o", "o", "n">>,
                <<"2", "0", "2", "3">>,
                <<"2", "0", "2", "3", "/", "0", "8", "/", "1", "5">> } }

\* the calendar's verdict on the input's own fields
IsCalendarDate(i) ==
    /\ i.kind = "date"
    /\ i.y \in 1..9999
    /\ i.m \in 1..12
    /\ i.d \in 1..DaysInMonth(i.y, i.m)

\* The topic is created with three partitions (line 52), and the producer is
\* built without a partitioner of its own: the client library hashes the key
\* bytes and takes the result modulo the number of partitions.  KeyHash stands
\* for the library's hash; what matters is that it reads the key bytes only.
num_partitions == 3

KeyAlphabet ==
    <<"0", "1", "2", "3", "4", "5", "6", "7", "8", "9", "a", "b", "c", "d", "e", "f",
      "g", "h", "i", "j", "k", "l", "m", "n", "o", "p", "q", "r", "s", "t", "u", "v",
      "w", "x", "y", "z", "-">>

CharCode(c) ==
    IF \E i \in 1..Len(KeyAlphabet) : KeyAlphabet[i] = c
    THEN CHOOSE i \in 1..Len(KeyAlphabet) : KeyAlphabet[i] = c
    ELSE 0

RECURSIVE KeyHash(_)
KeyHash(text) ==
    IF Len(text) = 0 THEN 0
    ELSE (31 * KeyHash(SubSeq(text, 1, Len(text) - 1)) + CharCode(text[Len(text)]))
             % 65536

Partition(key_bytes) == KeyHash(key_bytes.of) % num_partitions

Partitions == 0..(num_partitions - 1)

\* the function specifications leave the pipeline at rest, and the pipeline
\* specifications leave the function variables at rest
FnIdle ==
    /\ fn_in = <<>>
    /\ fn_out = <<>>
    /\ fn_pc = "unused"

ConsumerIdle ==
    /\ event = [eventSource |-> "none"]
    /\ c_pc = "Idle"
    /\ part = 0
    /\ idx = 0
    /\ total_records = 0
    /\ processed_items = <<>>
    /\ success_count = 0
    /\ write_pos = 0
    /\ store = {}
    /\ deliveries = 0
    /\ store_at_start = {}
    /\ prev_full = FALSE
    /\ offset = [k \in Partitions |-> 0]
    /\ other = [pc |-> "Idle", items |-> <<>>, pos |-> 0]

Producers == {"p1", "p2"}

NoResponse == [statusCode |-> 0]

ProducerLocalIdle ==
    [pc |-> "idle", request |-> [httpMethod |-> "none"], body |-> [type |-> "none"],
     listed |-> <<>>, response |-> NoResponse, sends |-> 0, ensure |-> "none",
     lost_race |-> FALSE, dep_failed |-> FALSE, acked |-> FALSE, connections |-> 0,
     provisions |-> 0, started_at |-> 0]

ProducerIdle ==
    /\ prod = [p \in Producers |-> ProducerLocalIdle]
    /\ topics = <<>>
    /\ log = <<>>
    /\ uuid_next = 1
    /\ submits = 0

SeasonInit ==
    /\ fn_in \in SeasonInputs
    /\ fn_out = <<>>
    /\ fn_pc = "input"
    /\ ConsumerIdle
    /\ ProducerIdle

CallDeriveSeason ==
    /\ fn_pc = "input"
    /\ fn_out' = derive_season(fn_in.text)
    /\ fn_pc' = "returned"
    /\ UNCHANGED fn_in
    /\ UNCHANGED consumerVars
    /\ UNCHANGED producerVars

SeasonNext == CallDeriveSeason

SpecSeason == SeasonInit /\ [][SeasonNext]_vars

(***************************************************************************)
(* C5: derive_season maps a parsable timestamp of month 1..7 and year y to *)
(* "{y-1}/{y}" and one of month 8..12 to "{y}/{y+1}"; 31 July 23:59:59 is  *)
(* the last instant of the earlier season and 1 August 00:00:00 the first  *)
(* of the later one.                                                       *)
(***************************************************************************)
C5_SeasonByMonth ==
    (fn_pc = "returned" /\ IsCalendarDate(fn_in)) =>
        /\ fn_in.m \in 1..7  => fn_out = SeasonText(fn_in.y - 1, fn_in.y)
        /\ fn_in.m \in 8..12 => fn_out = SeasonText(fn_in.y, fn_in.y + 1)
        /\ fn_in.text = IsoZ(2023, 7, 31, 23, 59, 59)
              => fn_out = <<"2", "0", "2", "2", "/", "2", "0", "2", "3">>
        /\ fn_in.text = IsoZ(2023, 8, 1, 0, 0, 0)
              => fn_out = <<"2", "0", "2", "3", "/", "2", "0", "2", "4">>

C5_Witness ==
    /\ fn_pc = "returned"
    /\ fn_in.text = <<"2", "0", "2", "3", "-", "0", "8", "-", "0", "1", "T",
                      "0", "0", ":", "0", "0", ":", "0", "0", "Z">>
    /\ fn_out = <<"2", "0", "2", "3", "/", "2", "0", "2", "4">>


(***************************************************************************)
(* Records handed to process_record                                        *)
(***************************************************************************)
GoalText == <<"g", "o", "a", "l">>
CardText == <<"c", "a", "r", "d">>
M1 == <<"m", "1">>
M2 == <<"m", "2">>
E1 == <<"e", "1">>
E2 == <<"e", "2">>
ClientSeason == <<"1", "9", "9", "9">>

TsGoal == IsoZ(2023, 8, 15, 14, 30, 0)
TsCard == IsoZ(2023, 8, 15, 14, 35, 0)
TsJan  == IsoZ(2023, 1, 15, 14, 30, 0)
TsBad  == <<"s", "o", "o", "n">>

\* a decoded payload with the optional fields given or left out
Payload(match_id, event_type, timestamp, event_timestamp, season, event_id) ==
    Opt("match_id", match_id) @@ Opt("event_type", event_type)
        @@ Opt("timestamp", timestamp) @@ Opt("event_timestamp", event_timestamp)
        @@ Opt("season", season) @@ Opt("event_id", event_id)

RecordPayloads ==
    { Payload(m, et, ts, ets, se, Absent) :
        m   \in {Absent, M1},
        et  \in {Absent, None, GoalText, CardText},
        ts  \in {Absent, None, <<>>, TsGoal, TsJan, TsBad},
        ets \in {Absent, TsCard},
        se  \in {Absent, ClientSeason} }

\* a log record as the event source hands it over
KafkaRecord(value) == [topic |-> "football-events", value |-> value]

UndecodableRecords ==
    { [topic |-> "football-events"],
      KafkaRecord(BadB64),
      KafkaRecord(B64(BadUtf8)),
      KafkaRecord(B64(Utf8(BadJson))),
      KafkaRecord(B64(Utf8(JsonText(JsonArray)))) }

RecordInputs == { KafkaRecord(Encode(p)) : p \in RecordPayloads } \cup UndecodableRecords

\* the payload a well-formed record carries
PayloadOf(record) == record["value"].of.of.of.fields

RecordInit ==
    /\ fn_in \in RecordInputs
    /\ fn_out = <<>>
    /\ fn_pc = "input"
    /\ ConsumerIdle
    /\ ProducerIdle

CallProcessRecord ==
    /\ fn_pc = "input"
    /\ fn_out' = process_record(fn_in)
    /\ fn_pc' = "returned"
    /\ UNCHANGED fn_in
    /\ UNCHANGED consumerVars
    /\ UNCHANGED producerVars

RecordNext == CallProcessRecord

SpecRecord == RecordInit /\ [][RecordNext]_vars

(***************************************************************************)
(* C4: for every event returned by process_record, whatever fields the     *)
(* decoded payload had, event_type_timestamp equals the event's event_type *)
(* field, followed by '#', followed by the event's event_timestamp field.  *)
(***************************************************************************)
C4_CompositeEqualsFields ==
    (fn_pc = "returned" /\ fn_out # Dropped) =>
        /\ Has(fn_out, "event_type")
        /\ Has(fn_out, "event_timestamp")
        /\ fn_out["event_type_timestamp"]
              = fn_out["event_type"] \o HashText \o fn_out["event_timestamp"]


(***************************************************************************)
(* The store: a DynamoDB table with primary key (match_id, event_timestamp)*)
(***************************************************************************)
\* a bug to compare with: the event_id is part of the primary key
Key_WithEventId(item) ==
    <<Get(item, "match_id", Absent), Get(item, "event_timestamp", Absent),
      Get(item, "event_id", Absent)>>


Key(item) == <<Get(item, "match_id", Absent), Get(item, "event_timestamp", Absent)>>

\* an item the table accepts: both key attributes present, non-empty text
ValidItem(item) ==
    /\ Has(item, "match_id") /\ item["match_id"] \notin {None, <<>>}
    /\ Has(item, "event_timestamp") /\ item["event_timestamp"] \notin {None, <<>>}

\* one BatchWriteItem call is refused as a whole when an item lacks a key
\* attribute or when two of its items have the same primary key
ChunkValid(chunk) ==
    /\ \A i \in 1..Len(chunk) : ValidItem(chunk[i])
    /\ \A i, j \in 1..Len(chunk) : i # j => Key(chunk[i]) # Key(chunk[j])

\* a bug to compare with: a put that appends instead of replacing
put_item_append(table, item) == table \cup {item}

\* batch.put_item(Item=item): the item replaces the one stored under its key
put_item(table, item) == {x \in table : Key(x) # Key(item)} \cup {item}

RECURSIVE PutAll(_, _)
PutAll(table, chunk) ==
    IF Len(chunk) = 0 THEN table
    ELSE PutAll(put_item(table, Head(chunk)), Tail(chunk))

\* The batch writer sends its buffer every flush_amount items.  boto3's
\* value is 25; the model scales it down with the batch size, so that a batch
\* of MaxBatch records spans more than one physical call.
flush_amount == 1

Min(a, b) == IF a < b THEN a ELSE b

\* the items of the next physical call
NextChunk == SubSeq(processed_items, write_pos,
                    Min(write_pos + flush_amount - 1, Len(processed_items)))

(***************************************************************************)
(* Batches delivered to the consumer                                       *)
(***************************************************************************)
MaxBatch == 2
MaxDeliveries == 2

RecGoal == KafkaRecord(Encode(Payload(M1, GoalText, TsGoal, Absent, Absent, E1)))
RecCard == KafkaRecord(Encode(Payload(M1, CardText, TsCard, Absent, Absent, E2)))
\* a card at the very instant of the goal: same storage key, other content
RecCardAtGoal == KafkaRecord(Encode(Payload(M1, CardText, TsGoal, Absent, Absent, E2)))
\* accepted by the submission endpoint, whose timestamp is optional
RecNoTimestamp == KafkaRecord(Encode(Payload(M1, GoalText, Absent, Absent, Absent, E1)))
RecUndecodable == KafkaRecord(B64(Utf8(BadJson)))

ConsumerRecords == {RecGoal, RecCard, RecCardAtGoal, RecNoTimestamp, RecUndecodable}

RecordLists == UNION { [1..n -> ConsumerRecords] : n \in 0..MaxBatch }

\* the records of a batch arrive grouped by partition, in one or two groups
PartitionGroupings ==
    { <<s>> : s \in RecordLists } \cup
    UNION { { <<SubSeq(s, 1, k), SubSeq(s, k + 1, Len(s))>> : k \in 1..(Len(s) - 1) } :
                s \in RecordLists }

KafkaEvent(groups) == [eventSource |-> "aws:kafka", records |-> groups]

ConsumerEvents ==
    { KafkaEvent(g) : g \in PartitionGroupings \cup { <<>> } }
        \cup { [eventSource |-> "aws:kafka"] }

RECURSIVE CountRecords(_)
CountRecords(groups) ==
    IF Len(groups) = 0 THEN 0 ELSE Len(Head(groups)) + CountRecords(Tail(groups))

\* the records of an event, counted before any is dropped
TotalReceived(ev) == IF Has(ev, "records") THEN CountRecords(ev["records"]) ELSE 0

RECURSIVE Flatten(_)
Flatten(groups) ==
    IF Len(groups) = 0 THEN <<>> ELSE Head(groups) \o Flatten(Tail(groups))

AllRecords(ev) == IF Has(ev, "records") THEN Flatten(ev["records"]) ELSE <<>>


(***************************************************************************)
(* lambda_handler of the Batch Consumer, one action per step               *)
(***************************************************************************)
Terminal == {"Acked", "RetryWholeBatch"}

\* batch_write_to_dynamodb returned without an exception in this invocation
WroteAll ==
    /\ c_pc \in Terminal
    /\ processed_items # <<>>
    /\ success_count = Len(processed_items)

\* The event source hands over a batch.  A batch whose invocation raised, or
\* ended without an answer, is delivered again unchanged; after an acknowledgment the next batch may be
\* any batch, the same one included (delivery is at least once).
Receive(ev) ==
    /\ c_pc \in Terminal \cup {"Idle", "Crashed"}
    /\ deliveries < MaxDeliveries
    /\ c_pc \in {"RetryWholeBatch", "Crashed"} => ev = event
    /\ event' = ev
    /\ c_pc' = "Received"
    /\ deliveries' = deliveries + 1
    /\ total_records' = 0
    /\ processed_items' = <<>>
    /\ success_count' = 0
    /\ part' = 0
    /\ idx' = 0
    /\ write_pos' = 0
    /\ store_at_start' = store
    /\ prev_full' = (ev = event /\ WroteAll)
    /\ UNCHANGED <<store, offset, other>>

\* line 128: if 'records' in event
EnterLoop ==
    /\ c_pc = "Received"
    /\ IF Has(event, "records")
       THEN c_pc' = "Decoding" /\ part' = 1
       ELSE c_pc' = "Deciding" /\ part' = 0
    /\ UNCHANGED <<other, offset, event, idx, total_records, processed_items, success_count,
                   write_pos, store, deliveries, store_at_start, prev_full>>

\* lines 129-132: the next partition's records are counted as received
StartPartition ==
    /\ c_pc = "Decoding"
    /\ idx = 0
    /\ part <= Len(event["records"])
    /\ LET records == event["records"][part] IN
       /\ total_records' = total_records + Len(records)
       /\ IF Len(records) = 0
          THEN part' = part + 1 /\ idx' = 0
          ELSE part' = part /\ idx' = 1
    /\ UNCHANGED <<other, offset, event, c_pc, processed_items, success_count, write_pos, store,
                   deliveries, store_at_start, prev_full>>

\* a bug to compare with: every event is put into the table as soon as it is
\* enriched, and the bulk write follows
ProcessRecord_WriteEach ==
    /\ c_pc = "Decoding"
    /\ idx >= 1
    /\ LET records == event["records"][part]
           item == process_record(records[idx])
       IN  /\ processed_items' = IF item # Dropped
                                 THEN Append(processed_items, item)
                                 ELSE processed_items
           /\ store' = IF item # Dropped /\ ValidItem(item)
                       THEN put_item(store, item) ELSE store
           /\ IF idx = Len(records)
              THEN part' = part + 1 /\ idx' = 0
              ELSE part' = part /\ idx' = idx + 1
    /\ UNCHANGED <<other, offset, event, c_pc, total_records, success_count, write_pos,
                   deliveries, store_at_start, prev_full>>

\* a bug to compare with: the enriched event is put in front of the list
ProcessRecord_Prepend ==
    /\ c_pc = "Decoding"
    /\ idx >= 1
    /\ LET records == event["records"][part]
           item == process_record(records[idx])
       IN  /\ processed_items' = IF item # Dropped
                                 THEN <<item>> \o processed_items
                                 ELSE processed_items
           /\ IF idx = Len(records)
              THEN part' = part + 1 /\ idx' = 0
              ELSE part' = part /\ idx' = idx + 1
    /\ UNCHANGED <<other, offset, event, c_pc, total_records, success_count, write_pos, store,
                   deliveries, store_at_start, prev_full>>

\* lines 134-137: one record is decoded and enriched, or dropped
ProcessRecord ==
    /\ c_pc = "Decoding"
    /\ idx >= 1
    /\ LET records == event["records"][part]
           item == process_record(records[idx])
       IN  /\ processed_items' = IF item # Dropped
                                 THEN Append(processed_items, item)
                                 ELSE processed_items
           /\ IF idx = Len(records)
              THEN part' = part + 1 /\ idx' = 0
              ELSE part' = part /\ idx' = idx + 1
    /\ UNCHANGED <<other, offset, event, c_pc, total_records, success_count, write_pos, store,
                   deliveries, store_at_start, prev_full>>

\* a policy to compare with: nothing is written once a record was dropped
WriteGuard_AllOrNothing ==
    processed_items # <<>> /\ Len(processed_items) = total_records

\* a bug to compare with: the bulk write is entered whatever was decoded
WriteGuard_Always == TRUE

\* line 140: if processed_items
WriteGuard == processed_items # <<>>

\* lines 139-141: after the loop the bulk write is called, or skipped
LeaveLoop ==
    /\ c_pc = "Decoding"
    /\ idx = 0
    /\ part > Len(event["records"])
    /\ IF WriteGuard
       THEN c_pc' = "Writing" /\ write_pos' = 1
       ELSE c_pc' = "Deciding" /\ write_pos' = 0
    /\ UNCHANGED <<other, offset, event, part, idx, total_records, processed_items, success_count,
                   store, deliveries, store_at_start, prev_full>>

\* batch_write_to_dynamodb, one physical call of the batch writer that the
\* table accepts; after the last one the function returns len(items).  Items
\* the table hands back as unprocessed are sent again by the writer until they
\* are taken, which is folded into the call.
FlushChunk ==
    /\ c_pc = "Writing"
    /\ write_pos <= Len(processed_items)
    /\ ChunkValid(NextChunk)
    /\ store' = PutAll(store, NextChunk)
    /\ write_pos' = write_pos + Len(NextChunk)
    /\ IF write_pos' > Len(processed_items)
       THEN c_pc' = "Deciding" /\ success_count' = Len(processed_items)
       ELSE c_pc' = "Writing" /\ success_count' = success_count
    /\ UNCHANGED <<other, offset, event, part, idx, total_records, processed_items, deliveries,
                   store_at_start, prev_full>>

\* a physical call raises: the table refuses the request, or the table cannot
\* be reached.  The exception is caught (lines 104-105) and 0 is returned;
\* the chunks sent before stay written.
FlushFails ==
    /\ c_pc = "Writing"
    /\ write_pos <= Len(processed_items)
    /\ c_pc' = "Deciding"
    /\ success_count' = 0
    /\ UNCHANGED <<other, offset, event, part, idx, total_records, processed_items, write_pos, store,
                   deliveries, store_at_start, prev_full>>

\* a bug to compare with: the count of decoded records is what is compared
BatchOutcome_AfterDrop ==
    IF success_count # Len(processed_items) THEN "RetryWholeBatch" ELSE "Acked"

\* a bug to compare with: the invocation never raises
BatchOutcome_NeverRaise == "Acked"

\* a bug to compare with: an invocation that wrote something is acknowledged
BatchOutcome_Tolerant ==
    IF success_count = 0 /\ total_records > 0 THEN "RetryWholeBatch" ELSE "Acked"

\* a bug to compare with: an invocation that wrote nothing raises
BatchOutcome_EmptyRaises ==
    IF success_count = 0 \/ success_count # total_records
    THEN "RetryWholeBatch" ELSE "Acked"

\* lines 153-166: raise unless every received record was written
BatchOutcome ==
    IF success_count # total_records THEN "RetryWholeBatch" ELSE "Acked"

\* line 159: the message of the exception; lines 161-166: the response
Raised(done, total) ==
    [raised |-> <<"P", "r", "o", "c", "e", "s", "s", "e", "d", " ">>
                    \o IntToStr(done)
                    \o <<" ", "o", "u", "t", " ", "o", "f", " ">>
                    \o IntToStr(total)
                    \o <<" ", "r", "e", "c", "o", "r", "d", "s", " ", "s", "u", "c", "c", "e",
                       "s", "s", "f", "u", "l", "l", "y">>]

Returned(done) ==
    [statusCode |-> 200,
     message |-> IntToStr(done)
                    \o <<" ", "r", "e", "c", "o", "r", "d", "s", " ", "p", "r", "o", "c", "e",
                       "s", "s", "e", "d", " ", "s", "u", "c", "c", "e", "s", "s", "f", "u",
                       "l", "l", "y">>]

\* what the invocation hands back to the event source
HandlerResult ==
    IF BatchOutcome = "RetryWholeBatch"
    THEN Raised(success_count, total_records)
    ELSE Returned(success_count)

Decide ==
    /\ c_pc = "Deciding"
    /\ c_pc' = BatchOutcome
    /\ UNCHANGED <<other, offset, event, part, idx, total_records, processed_items, success_count,
                   write_pos, store, deliveries, store_at_start, prev_full>>

ConsumerInit == FnIdle /\ ConsumerIdle /\ ProducerIdle

ConsumerNext ==
    \/ (\E ev \in ConsumerEvents : Receive(ev)) /\ UNCHANGED fnVars /\ UNCHANGED producerVars
    \/ EnterLoop /\ UNCHANGED fnVars /\ UNCHANGED producerVars
    \/ StartPartition /\ UNCHANGED fnVars /\ UNCHANGED producerVars
    \/ ProcessRecord /\ UNCHANGED fnVars /\ UNCHANGED producerVars
    \/ LeaveLoop /\ UNCHANGED fnVars /\ UNCHANGED producerVars
    \/ FlushChunk /\ UNCHANGED fnVars /\ UNCHANGED producerVars
    \/ FlushFails /\ UNCHANGED fnVars /\ UNCHANGED producerVars
    \/ Decide /\ UNCHANGED fnVars /\ UNCHANGED producerVars

SpecConsumer == ConsumerInit /\ [][ConsumerNext]_vars

\* The invocation ends without an answer at any point before its outcome: the
\* runtime stops it (time limit, memory, loss of the host).  Nothing is undone:
\* the handler has no cleanup, and what the batch writer sent stays in the table.
Crash ==
    /\ c_pc \in {"Received", "Decoding", "Writing", "Deciding"}
    /\ c_pc' = "Crashed"
    /\ UNCHANGED <<other, offset, event, part, idx, total_records, processed_items, success_count,
                   write_pos, store, deliveries, store_at_start, prev_full>>

CrashNext ==
    \/ ConsumerNext
    \/ Crash /\ UNCHANGED fnVars /\ UNCHANGED producerVars

SpecCrash == ConsumerInit /\ [][CrashNext]_vars

(***************************************************************************)
(* Two invocations at the same time.  The event source hands overlapping   *)
(* ranges of one partition to two invocations of lambda_handler; both run  *)
(* the same code against the same table, and nothing orders their physical *)
(* calls.  The first invocation is the one of the steps above; the second  *)
(* one touches nothing shared before its bulk write, so its loop is one    *)
(* step and its bulk write one step per physical call.                     *)
(***************************************************************************)
MaxRange == 3

\* a goal at the instant of RecCard, so that each of the two storage keys has
\* two records that differ in content
RecGoalAtCard == KafkaRecord(Encode(Payload(M1, GoalText, TsCard, Absent, Absent, E1)))

\* the records of the partition, in offset order
ConcurrentLog == <<RecGoal, RecCard, RecCardAtGoal, RecGoalAtCard>>

\* the batches the event source may cut out of the partition
RangeEvents ==
    { KafkaEvent(<<SubSeq(ConcurrentLog, r[1], r[2])>>) :
        r \in { q \in (1..Len(ConcurrentLog)) \X (1..Len(ConcurrentLog)) :
                    q[1] <= q[2] /\ q[2] - q[1] < MaxRange } }

\* two batches have a record in common
Overlap(ev1, ev2) ==
    \E i \in 1..Len(AllRecords(ev1)), j \in 1..Len(AllRecords(ev2)) :
        AllRecords(ev1)[i] = AllRecords(ev2)[j]

\* the places of the records that process_record does not drop
RECURSIVE DecodedPositions(_, _)
DecodedPositions(records, i) ==
    IF i > Len(records) THEN <<>>
    ELSE (IF process_record(records[i]) = Dropped THEN <<>> ELSE <<i>>)
             \o DecodedPositions(records, i + 1)

\* lines 128-137 run to the end: the list the loop leaves in processed_items
EnrichedItems(ev) ==
    LET records == AllRecords(ev)
        from == DecodedPositions(records, 1)
    IN  [i \in 1..Len(from) |-> process_record(records[from[i]])]

\* the second invocation receives its batch and runs up to its bulk write
OtherStart(ev) ==
    /\ other.pc = "Idle"
    /\ c_pc # "Idle"
    /\ Overlap(ev, event)
    /\ LET items == EnrichedItems(ev) IN
           other' = [pc |-> IF items # <<>> THEN "Writing" ELSE "Done",
                     items |-> items,
                     pos |-> 1]
    /\ UNCHANGED <<offset, event, c_pc, part, idx, total_records, processed_items,
                   success_count, write_pos, store, deliveries, store_at_start, prev_full>>

OtherChunk == SubSeq(other.items, other.pos,
                     Min(other.pos + flush_amount - 1, Len(other.items)))

\* batch_write_to_dynamodb of the second invocation, one accepted physical call
OtherFlush ==
    /\ other.pc = "Writing"
    /\ ChunkValid(OtherChunk)
    /\ store' = PutAll(store, OtherChunk)
    /\ other' = [other EXCEPT !.pos = @ + Len(OtherChunk),
                              !.pc = IF other.pos + Len(OtherChunk) > Len(other.items)
                                     THEN "Done" ELSE "Writing"]
    /\ UNCHANGED <<offset, event, c_pc, part, idx, total_records, processed_items,
                   success_count, write_pos, deliveries, store_at_start, prev_full>>

\* a physical call of the second invocation raises
OtherFails ==
    /\ other.pc = "Writing"
    /\ other' = [other EXCEPT !.pc = "Failed"]
    /\ UNCHANGED <<offset, event, c_pc, part, idx, total_records, processed_items,
                   success_count, write_pos, store, deliveries, store_at_start, prev_full>>

ConcurrentNext ==
    \/ (\E ev \in RangeEvents : deliveries = 0 /\ Receive(ev))
            /\ UNCHANGED fnVars /\ UNCHANGED producerVars
    \/ EnterLoop /\ UNCHANGED fnVars /\ UNCHANGED producerVars
    \/ StartPartition /\ UNCHANGED fnVars /\ UNCHANGED producerVars
    \/ ProcessRecord /\ UNCHANGED fnVars /\ UNCHANGED producerVars
    \/ LeaveLoop /\ UNCHANGED fnVars /\ UNCHANGED producerVars
    \/ FlushChunk /\ UNCHANGED fnVars /\ UNCHANGED producerVars
    \/ FlushFails /\ UNCHANGED fnVars /\ UNCHANGED producerVars
    \/ Decide /\ UNCHANGED fnVars /\ UNCHANGED producerVars
    \/ (\E ev \in RangeEvents : OtherStart(ev))
            /\ UNCHANGED fnVars /\ UNCHANGED producerVars
    \/ OtherFlush /\ UNCHANGED fnVars /\ UNCHANGED producerVars
    \/ OtherFails /\ UNCHANGED fnVars /\ UNCHANGED producerVars

SpecConcurrent == ConsumerInit /\ [][ConcurrentNext]_vars

\* the steps a started invocation takes without waiting for anything: the
\* runtime runs the handler from one statement to the next
InvocationStep ==
    /\ \/ EnterLoop
       \/ StartPartition
       \/ LeaveLoop
       \/ FlushChunk
       \/ FlushFails
       \/ Decide
    /\ UNCHANGED fnVars
    /\ UNCHANGED producerVars

\* lines 133-137: the loop over the records of a partition is a loop over
\* finitely many records, and the handler leaves it
LoopEnds == []<>~(c_pc = "Decoding" /\ idx >= 1)

\* A started invocation runs on: weak fairness of its steps.  The step of the
\* record loop is left to LoopEnds.
SpecConsumerFair == ConsumerInit /\ [][ConsumerNext]_vars /\ WF_vars(InvocationStep)

(***************************************************************************)
(* C1: lambda_handler acknowledges (returns the 200 response) if and only  *)
(* if the success count returned by the bulk write equals the number of    *)
(* records received across all partitions, counted before any is dropped;  *)
(* in every other case it raises (RetryWholeBatch).                        *)
(***************************************************************************)
C1_AckIffAllWritten ==
    c_pc \in Terminal =>
        /\ total_records = TotalReceived(event)
        /\ (c_pc = "Acked") <=> (success_count = TotalReceived(event))
        /\ (c_pc = "RetryWholeBatch") <=> (success_count # TotalReceived(event))

\* a batch with a dropped record whose decoded record was written: it raises
C1_Witness ==
    /\ c_pc = "RetryWholeBatch"
    /\ TotalReceived(event) = 2
    /\ Len(processed_items) = 1
    /\ success_count = 1

\* the records of the current event that process_record drops
DroppedCount(ev) ==
    Cardinality({i \in 1..Len(AllRecords(ev)) : process_record(AllRecords(ev)[i]) = Dropped})

(***************************************************************************)
(* C2 as stated: if at least one record of a batch fails to decode while   *)
(* the other records decode correctly, the invocation reports failure and  *)
(* zero items from that invocation are stored (the store is unchanged by   *)
(* that attempt).                                                          *)
(***************************************************************************)
C2_LossStoresNothing ==
    (c_pc \in Terminal /\ DroppedCount(event) >= 1
                       /\ DroppedCount(event) < TotalReceived(event)) =>
        /\ c_pc = "RetryWholeBatch"
        /\ store = store_at_start

(***************************************************************************)
(* C2 amended: if at least one record of a batch fails to decode while the *)
(* other records decode correctly, the invocation reports failure, and the *)
(* records that decoded are still handed to the bulk write: when that      *)
(* write succeeds the store holds, under the key of every decoded record,  *)
(* the last decoded item with that key (n-k items when the keys are        *)
(* pairwise distinct and the store was empty), not zero items.             *)
(***************************************************************************)
C2_LossStillWritesDecoded ==
    (c_pc \in Terminal /\ DroppedCount(event) >= 1
                       /\ DroppedCount(event) < TotalReceived(event)) =>
        /\ c_pc = "RetryWholeBatch"
        /\ write_pos >= 1
        /\ Len(processed_items) = TotalReceived(event) - DroppedCount(event)
        /\ success_count = Len(processed_items) =>
              /\ \A i \in 1..Len(processed_items) :
                    (\A j \in (i + 1)..Len(processed_items) :
                        Key(processed_items[j]) # Key(processed_items[i]))
                    => processed_items[i] \in store
              /\ store_at_start = {} =>
                    Cardinality(store) =
                        Cardinality({Key(processed_items[i]) : i \in 1..Len(processed_items)})

C2_Witness ==
    /\ c_pc = "RetryWholeBatch"
    /\ DroppedCount(event) = 1
    /\ TotalReceived(event) = 2
    /\ success_count = 1
    /\ store_at_start = {}
    /\ Cardinality(store) = 1

(***************************************************************************)
(* C3: store writes are overwrite-idempotent on (match_id,                 *)
(* event_timestamp): the store never holds two items with the same key,    *)
(* and when a batch that was written in full is delivered again and        *)
(* written in full again, the store is what it was after the first write.  *)
(***************************************************************************)
C3_OverwriteIdempotent ==
    /\ \A x, y \in store : Key(x) = Key(y) => x = y
    /\ (WroteAll /\ prev_full) => store = store_at_start

C3_Witness ==
    /\ WroteAll
    /\ prev_full
    /\ deliveries = 2
    /\ Len(processed_items) = 2
    /\ Cardinality(store) = 1


(***************************************************************************)
(* The Producer: submissions                                               *)
(***************************************************************************)
MaxSubmits == 2

MSK_TOPIC == "football-events"

ApiRequest(body) == [httpMethod |-> "POST", body |-> body]

JsonBody(fields) == ApiRequest(JsonText(JsonObject(fields)))

SubmitBodies ==
    { Payload(M1, GoalText, TsGoal, Absent, Absent, Absent),
      Payload(M1, GoalText, TsGoal, Absent, Absent, E1),
      Payload(M2, GoalText, TsGoal, Absent, Absent, Absent),
      Payload(M1, GoalText, Absent, Absent, Absent, Absent),
      Payload(<<>>, GoalText, TsGoal, Absent, Absent, Absent),
      Payload(Absent, GoalText, TsGoal, Absent, Absent, Absent),
      Payload(M1, Absent, TsGoal, Absent, Absent, Absent) }

SubmitRequests ==
    { JsonBody(b) : b \in SubmitBodies }
        \cup { ApiRequest(JsonText(JsonArray)), ApiRequest(BadJson), [httpMethod |-> "POST"] }

\* schema.json is not part of the sources at hand: an object whose required
\* match_id and event_type are text
EVENT_SCHEMA(doc) ==
    /\ doc.type = "object"
    /\ Has(doc.fields, "match_id") /\ doc.fields["match_id"] # None
    /\ Has(doc.fields, "event_type") /\ doc.fields["event_type"] # None

validate_event(doc) == EVENT_SCHEMA(doc)

\* a value Python treats as false in `if not match_id`
Falsy(v) == v \in {Absent, None, <<>>}

\* a bug to compare with: the match_id check left out
ClientError_SchemaOnly(doc) ==
    IF ~validate_event(doc) THEN "Invalid event format" ELSE "none"

\* process_event, lines 150-170: the message of the 400 response, if any
ClientError(doc) ==
    IF ~validate_event(doc) THEN "Invalid event format"
    ELSE IF Falsy(Get(doc.fields, "match_id", Absent)) THEN "match_id is required"
    ELSE "none"

\* str(uuid.uuid4()): the n-th identifier drawn
UuidText(n) == <<"u", "u", "i", "d", "-">> \o IntToStr(n)

\* a bug to compare with: the client's event_id is overwritten
assign_event_id_always(fields, fresh) == Put(fields, "event_id", fresh)

\* lines 177-179
assign_event_id(fields, fresh) ==
    IF ~Has(fields, "event_id") THEN Put(fields, "event_id", fresh) ELSE fields

\* a bug to compare with: the event type is given as the partition key
ProducerRecord_KeyEventType(key, value) ==
    [key |-> Utf8(value["event_type"]), value |-> Utf8(JsonText(JsonObject(value)))]

\* the record the producer's serializers make of key and value
ProducerRecord(key, value) ==
    [key |-> Utf8(key), value |-> Utf8(JsonText(JsonObject(value)))]

Response(status, message) == [statusCode |-> status, message |-> message]

Response200(event_id) ==
    [statusCode |-> 200, message |-> "Event published successfully", event_id |-> event_id]

\* a bug to compare with: the send is repeated once after a failed wait
RetryAfterFailure_Once(sends) == sends < 2

\* lines 204-212: a failed wait is answered with 500, the send is not repeated
RetryAfterFailure(sends) == FALSE

\* a bug to compare with: losing the creation race is an error
CreateRaceIsSuccess_Raise == FALSE

\* lines 88-89: TopicAlreadyExistsError is caught and logged
CreateRaceIsSuccess == TRUE

Set(p, local) == prod' = [prod EXCEPT ![p] = local]

Finish(p, local, response) ==
    Set(p, [local EXCEPT !.pc = "done", !.response = response])

\* a bug to compare with: the failure is logged and swallowed, and the
\* invocation goes on to publish
Fail500_Swallowed(p, local) ==
    Set(p, [local EXCEPT !.dep_failed = TRUE, !.pc = "send"])

\* lines 42-43, 96-98, 132-134 re-raise; lines 204-212 answer with 500
Fail500(p, local) ==
    Finish(p, [local EXCEPT !.dep_failed = TRUE], Response(500, "Error publishing event"))

(***************************************************************************)
(* lambda_handler and process_event of the Producer                        *)
(***************************************************************************)
\* lines 220-233 and 146-170: parse the body, validate, require match_id
Submit(p, req) ==
    /\ prod[p].pc \in {"idle", "done"}
    /\ submits < MaxSubmits
    /\ submits' = submits + 1
    /\ LET fresh == [ProducerLocalIdle EXCEPT !.request = req,
                                              !.provisions = prod[p].provisions,
                                              !.started_at = Len(log)]
       IN
       IF ~Has(req, "body")
       THEN Finish(p, fresh, Response(400, "Missing request body"))
       ELSE LET doc == json_loads(req["body"]) IN
            IF doc = DecodeError
            THEN Finish(p, fresh, Response(500, "Error processing request"))
            ELSE IF ClientError(doc) # "none"
            THEN Finish(p, [fresh EXCEPT !.body = doc], Response(400, ClientError(doc)))
            ELSE Set(p, [fresh EXCEPT !.body = doc, !.pc = "get_bootstrap_servers"])
    /\ UNCHANGED <<topics, log, uuid_next>>

\* get_bootstrap_servers, lines 28-43
GetBootstrapServers(p, ok) ==
    /\ prod[p].pc = "get_bootstrap_servers"
    /\ IF ok
       THEN Set(p, [prod[p] EXCEPT !.pc = "admin_client"])
       ELSE Fail500(p, prod[p])
    /\ UNCHANGED <<topics, log, uuid_next, submits>>

\* ensure_topic_exists, lines 53-65: token provider and admin client
AdminClient(p, ok) ==
    /\ prod[p].pc = "admin_client"
    /\ LET local == [prod[p] EXCEPT !.provisions = @ + 1, !.ensure = "running"] IN
       IF ok
       THEN Set(p, [local EXCEPT !.pc = "list_topics", !.connections = @ + 1])
       ELSE Fail500(p, [local EXCEPT !.ensure = "error"])
    /\ UNCHANGED <<topics, log, uuid_next, submits>>

\* lines 68-73 and 85-86: list the topics and look for ours
ListTopics(p, ok) ==
    /\ prod[p].pc = "list_topics"
    /\ IF ~ok
       THEN Fail500(p, [prod[p] EXCEPT !.ensure = "error"])
       ELSE IF \E i \in 1..Len(topics) : topics[i] = MSK_TOPIC
       THEN Set(p, [prod[p] EXCEPT !.listed = topics, !.ensure = "ok",
                                   !.pc = "KafkaProducer"])
       ELSE Set(p, [prod[p] EXCEPT !.listed = topics, !.pc = "create_topics"])
    /\ UNCHANGED <<topics, log, uuid_next, submits>>

\* lines 74-92: create the topic; the cluster refuses a name it already has
CreateTopics(p, ok) ==
    /\ prod[p].pc = "create_topics"
    /\ IF ~ok
       THEN /\ Fail500(p, [prod[p] EXCEPT !.ensure = "error"])
            /\ UNCHANGED topics
       ELSE IF \E i \in 1..Len(topics) : topics[i] = MSK_TOPIC
       THEN /\ UNCHANGED topics
            /\ IF CreateRaceIsSuccess
               THEN Set(p, [prod[p] EXCEPT !.lost_race = TRUE, !.ensure = "ok",
                                           !.pc = "KafkaProducer"])
               ELSE Finish(p, [prod[p] EXCEPT !.lost_race = TRUE, !.ensure = "error"],
                           Response(500, "Error publishing event"))
       ELSE /\ topics' = Append(topics, MSK_TOPIC)
            /\ Set(p, [prod[p] EXCEPT !.ensure = "ok", !.pc = "KafkaProducer"])
    /\ UNCHANGED <<log, uuid_next, submits>>

\* get_kafka_producer, lines 113-131
KafkaProducer(p, ok) ==
    /\ prod[p].pc = "KafkaProducer"
    /\ IF ok
       THEN Set(p, [prod[p] EXCEPT !.pc = "send", !.connections = @ + 1])
       ELSE Fail500(p, prod[p])
    /\ UNCHANGED <<topics, log, uuid_next, submits>>

\* lines 176-187: give the event an id if it has none, hand it to the producer
Send(p) ==
    /\ prod[p].pc = "send"
    /\ LET fields == assign_event_id(prod[p].body.fields, UuidText(uuid_next)) IN
       /\ Set(p, [prod[p] EXCEPT !.body = JsonObject(fields), !.sends = @ + 1,
                                 !.pc = "future_get"])
       /\ uuid_next' = IF Has(prod[p].body.fields, "event_id")
                       THEN uuid_next ELSE uuid_next + 1
    /\ UNCHANGED <<topics, log, submits>>

PublishOutcomes == {"acked", "rejected", "timeout_lost", "timeout_landed"}

\* lines 189-212: wait for the acknowledgment, at most 10 seconds.  After a
\* timeout the record may or may not have reached the log.
FutureGet(p, outcome) ==
    /\ prod[p].pc = "future_get"
    /\ LET fields == prod[p].body.fields
           record == ProducerRecord(fields["match_id"], fields)
       IN
       /\ log' = IF outcome \in {"acked", "timeout_landed"}
                 THEN Append(log, record) ELSE log
       /\ IF outcome = "acked"
          THEN Finish(p, [prod[p] EXCEPT !.acked = TRUE], Response200(fields["event_id"]))
          ELSE IF RetryAfterFailure(prod[p].sends)
          THEN Set(p, [prod[p] EXCEPT !.pc = "send"])
          ELSE Finish(p, prod[p], Response(500, "Error publishing event"))
    /\ UNCHANGED <<topics, uuid_next, submits>>

ProducerInit == FnIdle /\ ConsumerIdle /\ ProducerIdle

ProducerNext ==
    \/ (\E p \in Producers, req \in SubmitRequests : Submit(p, req))
          /\ UNCHANGED fnVars /\ UNCHANGED consumerVars
    \/ (\E p \in Producers, ok \in BOOLEAN : GetBootstrapServers(p, ok))
          /\ UNCHANGED fnVars /\ UNCHANGED consumerVars
    \/ (\E p \in Producers, ok \in BOOLEAN : AdminClient(p, ok))
          /\ UNCHANGED fnVars /\ UNCHANGED consumerVars
    \/ (\E p \in Producers, ok \in BOOLEAN : ListTopics(p, ok))
          /\ UNCHANGED fnVars /\ UNCHANGED consumerVars
    \/ (\E p \in Producers, ok \in BOOLEAN : CreateTopics(p, ok))
          /\ UNCHANGED fnVars /\ UNCHANGED consumerVars
    \/ (\E p \in Producers, ok \in BOOLEAN : KafkaProducer(p, ok))
          /\ UNCHANGED fnVars /\ UNCHANGED consumerVars
    \/ (\E p \in Producers : Send(p))
          /\ UNCHANGED fnVars /\ UNCHANGED consumerVars
    \/ (\E p \in Producers, outcome \in PublishOutcomes : FutureGet(p, outcome))
          /\ UNCHANGED fnVars /\ UNCHANGED consumerVars

SpecProducer == ProducerInit /\ [][ProducerNext]_vars


\* the payload the client sent, when the body is a JSON object
Submitted(p) == json_loads(prod[p].request["body"])

TopicCount == Cardinality({i \in 1..Len(topics) : topics[i] = MSK_TOPIC})

(***************************************************************************)
(* C6: when ensure_topic_exists is run concurrently by two producer        *)
(* instances for a topic that does not yet exist, under every interleaving *)
(* of their list-topics and create-topic steps exactly one topic results   *)
(* and neither caller ends in an error: a caller that loses the creation   *)
(* race finishes successfully (a caller errs only when a dependency        *)
(* failed).                                                                *)
(***************************************************************************)
C6_CreationRaceTolerated ==
    /\ TopicCount <= 1
    /\ \A p \in Producers :
          /\ prod[p].ensure = "error" => prod[p].dep_failed
          /\ prod[p].ensure = "ok" => TopicCount = 1
          /\ prod[p].lost_race => prod[p].ensure = "ok"

\* both callers listed no topic, one created it, the other lost the race
C6_Witness ==
    /\ \A p \in Producers : prod[p].ensure = "ok" /\ prod[p].listed = <<>>
    /\ \E p \in Producers : prod[p].lost_race
    /\ \E p \in Producers : ~prod[p].lost_race
    /\ TopicCount = 1

(***************************************************************************)
(* C7: a submission whose raw body cannot be parsed (malformed JSON) is    *)
(* answered with a client error, status 400, and nothing is published.     *)
(***************************************************************************)
C7_MalformedBodyIs400 ==
    \A p \in Producers :
        (/\ prod[p].pc = "done"
         /\ Has(prod[p].request, "body")
         /\ Submitted(p) = DecodeError) =>
            /\ prod[p].response.statusCode = 400
            /\ prod[p].sends = 0

(***************************************************************************)
(* C8: a submission that fails schema validation, or whose match_id is     *)
(* absent or empty, is answered with status 400 and has no effect on the   *)
(* log: in that invocation no topic provisioning is attempted, no broker   *)
(* connection is created and no record is published.                       *)
(***************************************************************************)
C8_ClientErrorHasNoEffect ==
    \A p \in Producers :
        (/\ prod[p].pc # "idle"
         /\ Has(prod[p].request, "body")
         /\ Submitted(p) # DecodeError
         /\ \/ ~validate_event(Submitted(p))
            \/ Falsy(Get(Submitted(p).fields, "match_id", Absent))) =>
            /\ prod[p].pc = "done"
            /\ prod[p].response.statusCode = 400
            /\ prod[p].ensure = "none"
            /\ prod[p].connections = 0
            /\ prod[p].sends = 0

\* an empty match_id passes the schema and is refused by the match_id check
C8_Witness ==
    \E p \in Producers :
        /\ prod[p].pc = "done"
        /\ Has(prod[p].request, "body")
        /\ Submitted(p) # DecodeError
        /\ validate_event(Submitted(p))
        /\ Submitted(p).fields["match_id"] = <<>>
        /\ prod[p].response = Response(400, "match_id is required")

(***************************************************************************)
(* C9: submit returns status 200 only after the broker has acknowledged    *)
(* the publish of that event, and the event_id in the 200 response equals  *)
(* the event_id carried by the published payload: the client's own         *)
(* event_id when the payload had one, a freshly generated one otherwise.   *)
(***************************************************************************)
C9_OkOnlyAfterAck ==
    \A p \in Producers :
        (prod[p].pc = "done" /\ prod[p].response.statusCode = 200) =>
            LET sent == prod[p].body.fields
                given == Submitted(p).fields
            IN  /\ prod[p].acked
                /\ \E i \in 1..Len(log) : log[i] = ProducerRecord(sent["match_id"], sent)
                /\ prod[p].response.event_id = sent["event_id"]
                /\ Has(given, "event_id") =>
                      /\ sent = given
                      /\ prod[p].response.event_id = given["event_id"]
                /\ ~Has(given, "event_id") =>
                      \E n \in 1..(uuid_next - 1) :
                          /\ prod[p].response.event_id = UuidText(n)
                          /\ sent = Put(given, "event_id", UuidText(n))

\* one submission with its own event_id and one without, both acknowledged
C9_Witness ==
    \E p, q \in Producers :
        /\ prod[p].pc = "done" /\ prod[p].response.statusCode = 200
        /\ prod[q].pc = "done" /\ prod[q].response.statusCode = 200
        /\ Has(Submitted(p).fields, "event_id")
        /\ prod[p].response.event_id = E1
        /\ ~Has(Submitted(q).fields, "event_id")
        /\ prod[q].response.event_id = UuidText(1)
        /\ Len(log) = 2

(***************************************************************************)
(* C10: when the publish times out or the broker rejects it, submit        *)
(* returns status 500 and the Producer does not retry: within one submit   *)
(* invocation the event is sent to the log at most once, and nothing of    *)
(* the failed send is left pending when the call has returned.             *)
(***************************************************************************)
C10_FailedPublishNotRetried ==
    /\ Len(log) <= submits
    /\ \A p \in Producers :
          /\ prod[p].sends <= 1
          /\ prod[p].sends = 1 => prod[p].pc \in {"future_get", "done"}
          /\ (prod[p].pc = "done" /\ prod[p].sends = 1 /\ ~prod[p].acked) =>
                prod[p].response.statusCode = 500

\* a timed-out publish that reached the log all the same: 500, one record
C10_Witness ==
    \E p \in Producers :
        /\ prod[p].pc = "done"
        /\ prod[p].sends = 1
        /\ ~prod[p].acked
        /\ prod[p].response.statusCode = 500
        /\ Len(log) = 1
        /\ submits = 1


\* the match_id inside the value of a published record
RecordMatchId(r) == json_loads(utf8_decode(r.value)).fields["match_id"]

\* the record a finished, acknowledged submit has published
Published(p) == ProducerRecord(prod[p].body.fields["match_id"], prod[p].body.fields)

(***************************************************************************)
(* C11: every record the Producer publishes carries a partition key equal  *)
(* to the match_id of the event in its value, so any two published events  *)
(* with the same match_id land in the same partition; and the record of an *)
(* acknowledged submit lies behind every record that was in the log when   *)
(* that submit started, so submits that do not overlap appear in the log   *)
(* in submission order.                                                    *)
(***************************************************************************)
C11_KeyIsMatchId ==
    /\ \A i \in 1..Len(log) : utf8_decode(log[i].key) = RecordMatchId(log[i])
    /\ \A i, j \in 1..Len(log) :
          RecordMatchId(log[i]) = RecordMatchId(log[j]) =>
              Partition(log[i].key) = Partition(log[j].key)
    /\ \A p \in Producers :
          (prod[p].pc = "done" /\ prod[p].acked) =>
              \E i \in (prod[p].started_at + 1)..Len(log) : log[i] = Published(p)

\* two acknowledged submits for one match, the second started after the
\* first was acknowledged; a third match would go to another partition
C11_Witness ==
    \E p, q \in Producers :
        /\ p # q
        /\ prod[p].pc = "done" /\ prod[p].acked /\ prod[p].started_at = 0
        /\ prod[q].pc = "done" /\ prod[q].acked /\ prod[q].started_at = 1
        /\ Len(log) = 2
        /\ log[1] = Published(p) /\ log[2] = Published(q)
        /\ log[1] # log[2]
        /\ RecordMatchId(log[1]) = M1 /\ RecordMatchId(log[2]) = M1
        /\ Partition(Utf8(M1)) # Partition(Utf8(M2))

(***************************************************************************)
(* C12: topic provisioning (ensure_topic_exists) runs at most once per     *)
(* process lifetime: over any sequence of submit invocations handled by    *)
(* the same process, the topic check/create is performed by the first      *)
(* invocation that needs a connection and by no later one.                 *)
(***************************************************************************)
C12_ProvisionOncePerProcess ==
    \A p \in Producers : prod[p].provisions <= 1

(***************************************************************************)
(* C13: a dependency failure while setting up the connection (token        *)
(* acquisition, bootstrap-server lookup, topic list or create for a reason *)
(* other than "already exists") is fatal to the current submit: the        *)
(* invocation ends at once with status 500, it has published nothing, and  *)
(* no step of the setup is run again inside the invocation.                *)
(***************************************************************************)
C13_SetupFailureIsFatal ==
    \A p \in Producers :
        /\ prod[p].dep_failed =>
              /\ prod[p].pc = "done"
              /\ prod[p].response = Response(500, "Error publishing event")
              /\ prod[p].sends = 0
              /\ ~prod[p].acked
              /\ prod[p].connections <= 1
              /\ prod[p].body = Submitted(p)
        /\ prod[p].ensure = "error" => prod[p].dep_failed

\* the admin client connected and the topic listing or creation failed, while
\* the other process published
C13_Witness ==
    \E p, q \in Producers :
        /\ prod[p].dep_failed
        /\ prod[p].ensure = "error"
        /\ prod[p].connections = 1
        /\ prod[p].pc = "done"
        /\ prod[p].started_at = 0
        /\ prod[q].acked
        /\ Len(log) = 1

\* the payload the producer serialized into the i-th record of the event
Sent(i) == PayloadOf(AllRecords(event)[i])

(***************************************************************************)
(* C14: for a batch of n records that all decode and have pairwise         *)
(* distinct (match_id, event_timestamp), with the store accepting the      *)
(* writes, lambda_handler returns status 200 reporting n records           *)
(* processed, and the store then holds exactly n items for that batch,     *)
(* each carrying its derived season and its composite event_type_timestamp *)
(* key.                                                                    *)
(***************************************************************************)
C14_FullBatchStored ==
    LET n == TotalReceived(event)
        keys == {Key(processed_items[i]) : i \in 1..Len(processed_items)}
    IN  (/\ c_pc \in Terminal
         /\ n >= 1
         /\ DroppedCount(event) = 0
         /\ Cardinality(keys) = n
         /\ WroteAll) =>
            /\ c_pc = "Acked"
            /\ HandlerResult = Returned(n)
            /\ Cardinality({x \in store : Key(x) \in keys}) = n
            /\ \A i \in 1..n :
                  LET item == processed_items[i] IN
                  /\ item \in store
                  /\ \A k \in DOMAIN Sent(i) \ {"season"} : item[k] = Sent(i)[k]
                  /\ Has(item, "season")
                  /\ item["season"] = derive_season(Sent(i)["timestamp"])
                  /\ Has(item, "event_type_timestamp")
                  /\ item["event_type_timestamp"] =
                        item["event_type"] \o HashText \o item["event_timestamp"]

\* the goal and the card of one match, both stored for season 2023/2024
C14_Witness ==
    /\ c_pc = "Acked"
    /\ AllRecords(event) = <<RecGoal, RecCard>>
    /\ HandlerResult = Returned(2)
    /\ Cardinality(store) = 2
    /\ \A x \in store : x["season"] = SeasonText(2023, 2024)
    /\ \E x \in store : x["event_type_timestamp"] = GoalText \o HashText \o TsGoal
    /\ \E x \in store : x["event_type_timestamp"] = CardText \o HashText \o TsCard

(***************************************************************************)
(* C15: when every record of a non-empty batch of n records fails          *)
(* processing (process_record yields nothing), lambda_handler does not     *)
(* attempt the bulk write, leaves the store unchanged, and raises with the *)
(* message "Processed 0 out of n records successfully".                    *)
(***************************************************************************)
C15_AllDroppedRaises ==
    LET n == TotalReceived(event) IN
    (/\ c_pc \in {"Writing", "Deciding"} \cup Terminal
     /\ n >= 1
     /\ DroppedCount(event) = n) =>
        /\ c_pc # "Writing"
        /\ write_pos = 0
        /\ processed_items = <<>>
        /\ store = store_at_start
        /\ c_pc \in Terminal =>
              /\ c_pc = "RetryWholeBatch"
              /\ HandlerResult = Raised(0, n)

\* two undecodable records, delivered when the store already holds an item
C15_Witness ==
    /\ c_pc = "RetryWholeBatch"
    /\ TotalReceived(event) = 2
    /\ DroppedCount(event) = 2
    /\ store # {}
    /\ HandlerResult.raised =
          <<"P", "r", "o", "c", "e", "s", "s", "e", "d", " ", "0", " ", "o", "u", "t",
            " ", "o", "f", " ", "2", " ", "r", "e", "c", "o", "r", "d", "s", " ",
            "s", "u", "c", "c", "e", "s", "s", "f", "u", "l", "l", "y">>

(***************************************************************************)
(* C16: enrichment failure is non-fatal: when the event's timestamp cannot *)
(* be parsed, derive_season yields "unknown", process_record still returns *)
(* the event, with season = "unknown" and its other fields as they were,   *)
(* rather than dropping it, so the record is not counted as lost.          *)
(***************************************************************************)
C16_UnparsedTimestampKept ==
    (fn_pc = "returned" /\ fn_in \notin UndecodableRecords) =>
        LET given == PayloadOf(fn_in)
            ts == Get(given, "timestamp", <<>>)
        IN  (ts = None \/ fromisoformat(ReplaceZ(ts)) = ParseError) =>
                /\ derive_season(ts) = UnknownText
                /\ fn_out # Dropped
                /\ DOMAIN fn_out # {}
                /\ Has(fn_out, "season")
                /\ fn_out["season"] = UnknownText
                /\ \A k \in DOMAIN given \ {"season"} : fn_out[k] = given[k]

\* a timestamp that is text and no date, next to a season the client sent
C16_Witness ==
    /\ fn_pc = "returned"
    /\ fn_in \notin UndecodableRecords
    /\ Get(PayloadOf(fn_in), "timestamp", <<>>) = TsBad
    /\ Get(PayloadOf(fn_in), "season", <<>>) = ClientSeason
    /\ fn_out # Dropped
    /\ fn_out["season"] = UnknownText
    /\ fn_out["event_timestamp"] = TsBad

(***************************************************************************)
(* The pipeline: Producer, topic, event source and Batch Consumer together *)
(***************************************************************************)
\* the records of partition k, in the order they were appended
RECURSIVE PartitionLog(_, _)
PartitionLog(records, k) ==
    IF Len(records) = 0 THEN <<>>
    ELSE (IF Partition(Head(records).key) = k THEN <<Head(records)>> ELSE <<>>)
             \o PartitionLog(Tail(records), k)

\* The event source reads take[k] records of every partition k behind the
\* committed offset and groups them by partition; lambda_handler finds the
\* value of each record base64-encoded.
RECURSIVE Groups(_, _)
Groups(take, k) ==
    IF k = num_partitions THEN <<>>
    ELSE (IF take[k] = 0 THEN <<>>
          ELSE << [i \in 1..take[k] |->
                      [topic |-> MSK_TOPIC, partition |-> k,
                       value |-> B64(PartitionLog(log, k)[offset[k] + i].value)]] >>)
             \o Groups(take, k + 1)

\* the number of records in a batch that takes take[k] records of partition k
RECURSIVE TakeSize(_, _)
TakeSize(take, k) == IF k = num_partitions THEN 0 ELSE take[k] + TakeSize(take, k + 1)

\* the number of records the consumer group has committed
RECURSIVE Committed(_)
Committed(k) == IF k = num_partitions THEN 0 ELSE offset[k] + Committed(k + 1)

\* The event source invokes lambda_handler: with a new batch when the last
\* one is committed, with the same batch again when the invocation raised.
\* A new batch takes records behind the committed offsets, of one partition
\* or of several, at least one and at most MaxBatch in all.
\* deliveries counts the attempts at the current batch, up to MaxDeliveries.
Deliver ==
    /\ c_pc \in {"Idle", "RetryWholeBatch"}
    /\ IF c_pc = "RetryWholeBatch"
       THEN event' = event
       ELSE /\ Committed(0) < Len(log)
            /\ \E take \in [Partitions -> 0..MaxBatch] :
                    /\ TakeSize(take, 0) \in 1..MaxBatch
                    /\ \A k \in Partitions :
                           offset[k] + take[k] <= Len(PartitionLog(log, k))
                    /\ event' = KafkaEvent(Groups(take, 0))
    /\ c_pc' = "Received"
    /\ deliveries' = IF c_pc = "RetryWholeBatch"
                     THEN Min(deliveries + 1, MaxDeliveries) ELSE 1
    /\ total_records' = 0
    /\ processed_items' = <<>>
    /\ success_count' = 0
    /\ part' = 0
    /\ idx' = 0
    /\ write_pos' = 0
    /\ store_at_start' = store
    /\ prev_full' = (c_pc = "RetryWholeBatch" /\ WroteAll)
    /\ UNCHANGED <<store, offset, other>>

\* lambda_handler returned: the event source commits the batch, and the
\* invocation's locals are gone
Commit ==
    /\ c_pc = "Acked"
    /\ offset' = [k \in Partitions |->
                    offset[k] + Cardinality({i \in 1..Len(AllRecords(event)) :
                                                AllRecords(event)[i].partition = k})]
    /\ c_pc' = "Idle"
    /\ event' = [eventSource |-> "none"]
    /\ total_records' = 0
    /\ processed_items' = <<>>
    /\ success_count' = 0
    /\ part' = 0
    /\ idx' = 0
    /\ write_pos' = 0
    /\ UNCHANGED <<store, deliveries, store_at_start, prev_full, other>>

\* the events clients submit: a goal, a card at the very instant of the goal,
\* a goal without timestamp, a goal of another match
PipelineBodies ==
    { Payload(M1, GoalText, TsGoal, Absent, Absent, Absent),
      Payload(M1, CardText, TsGoal, Absent, Absent, Absent),
      Payload(M1, GoalText, Absent, Absent, Absent, Absent),
      Payload(M2, GoalText, TsGoal, Absent, Absent, Absent) }

\* Clients of the pipeline submit one after the other: a submission starts
\* when no other is under way, and the first one is handled by process p1
\* (concurrent submissions: SpecProducer).
ClientsInTurn(p) ==
    /\ \A q \in Producers : prod[q].pc \in {"idle", "done"}
    /\ p = "p2" => prod["p1"].pc # "idle"

PipelineInit == FnIdle /\ ConsumerIdle /\ ProducerIdle

\* the steps the event source and the consumer's runtime take on their own
\* account, whatever a record holds: deliver, run the handler from one
\* statement to the next, commit
ConsumerStep ==
    /\ \/ Deliver
       \/ EnterLoop
       \/ StartPartition
       \/ LeaveLoop
       \/ FlushChunk
       \/ FlushFails
       \/ Decide
       \/ Commit
    /\ UNCHANGED fnVars
    /\ UNCHANGED producerVars

\* In the pipeline the dependencies of the Producer's setup answer (their
\* failures: SpecProducer); the publish itself can still fail in every way.
PipelineNext ==
    \/ (\E p \in Producers, b \in PipelineBodies :
            ClientsInTurn(p) /\ Submit(p, JsonBody(b)))
          /\ UNCHANGED fnVars /\ UNCHANGED consumerVars
    \/ (\E p \in Producers : GetBootstrapServers(p, TRUE))
          /\ UNCHANGED fnVars /\ UNCHANGED consumerVars
    \/ (\E p \in Producers : AdminClient(p, TRUE))
          /\ UNCHANGED fnVars /\ UNCHANGED consumerVars
    \/ (\E p \in Producers : ListTopics(p, TRUE))
          /\ UNCHANGED fnVars /\ UNCHANGED consumerVars
    \/ (\E p \in Producers : CreateTopics(p, TRUE))
          /\ UNCHANGED fnVars /\ UNCHANGED consumerVars
    \/ (\E p \in Producers : KafkaProducer(p, TRUE))
          /\ UNCHANGED fnVars /\ UNCHANGED consumerVars
    \/ (\E p \in Producers : Send(p))
          /\ UNCHANGED fnVars /\ UNCHANGED consumerVars
    \/ (\E p \in Producers, outcome \in PublishOutcomes : FutureGet(p, outcome))
          /\ UNCHANGED fnVars /\ UNCHANGED consumerVars
    \/ Deliver /\ UNCHANGED fnVars /\ UNCHANGED producerVars
    \/ EnterLoop /\ UNCHANGED fnVars /\ UNCHANGED producerVars
    \/ StartPartition /\ UNCHANGED fnVars /\ UNCHANGED producerVars
    \/ ProcessRecord /\ UNCHANGED fnVars /\ UNCHANGED producerVars
    \/ LeaveLoop /\ UNCHANGED fnVars /\ UNCHANGED producerVars
    \/ FlushChunk /\ UNCHANGED fnVars /\ UNCHANGED producerVars
    \/ FlushFails /\ UNCHANGED fnVars /\ UNCHANGED producerVars
    \/ Decide /\ UNCHANGED fnVars /\ UNCHANGED producerVars
    \/ Commit /\ UNCHANGED fnVars /\ UNCHANGED producerVars

\* The event source polls for ever and a started invocation runs on: weak
\* fairness of the consumer's steps.  The step of the record loop is left to
\* LoopEnds below.
SpecPipeline == PipelineInit /\ [][PipelineNext]_vars /\ WF_vars(ConsumerStep)

\* submit answered 200 for the body b
Answered200(b) ==
    \E p \in Producers :
        /\ prod[p].pc = "done"
        /\ prod[p].response.statusCode = 200
        /\ Submitted(p).fields = b

\* the business event of a record of the topic: what the client sent, the
\* published fields without the event_id
Business(record) ==
    LET sent == json_loads(utf8_decode(record.value)).fields IN
    [f \in DOMAIN sent \ {"event_id"} |-> sent[f]]

\* the event b is on the topic, behind the committed offset of its partition
Pending(b) ==
    \E k \in Partitions :
        \E i \in (offset[k] + 1)..Len(PartitionLog(log, k)) :
            Business(PartitionLog(log, k)[i]) = b

\* x is the enriched item of the event b: it lies under b's (match_id,
\* event_timestamp) and carries b's derived season and composite key
IsItemOf(x, b) ==
    /\ Key(x) = <<Get(b, "match_id", Absent), Get(b, "timestamp", Absent)>>
    /\ x["season"] = derive_season(Get(b, "timestamp", <<>>))
    /\ x["event_type_timestamp"] = b["event_type"] \o HashText \o x["event_timestamp"]

Stored(b) == \E x \in store : IsItemOf(x, b)

\* the running invocation has put the item of b
WasPut(b) ==
    \E j \in 1..Len(processed_items) : j < write_pos /\ IsItemOf(processed_items[j], b)

(***************************************************************************)
(* C17: end-to-end liveness: an event that submit accepted is a record on  *)
(* the topic; provided the broker keeps redelivering unacknowledged        *)
(* batches and redelivery succeeds in the end (from some moment on no      *)
(* invocation raises), every such record that is not yet consumed leads to *)
(* a moment at which the store contains an item under the event's          *)
(* (match_id, event_timestamp) carrying the derived season and             *)
(* event_type_timestamp.  (A later event of the same key may replace the   *)
(* item afterwards: the obligation is met once the item has been put.)     *)
(***************************************************************************)
C17_AcceptedEventuallyStored ==
    (LoopEnds /\ <>[](c_pc # "RetryWholeBatch")) =>
        \A b \in PipelineBodies : (Pending(b) /\ ~WasPut(b)) ~> Stored(b)

\* an accepted goal whose batch raised on the first delivery and was written
\* and acknowledged on the second
C17_Witness ==
    /\ c_pc = "Acked"
    /\ deliveries = 2
    /\ Answered200(Payload(M1, GoalText, TsGoal, Absent, Absent, Absent))
    /\ Stored(Payload(M1, GoalText, TsGoal, Absent, Absent, Absent))
    /\ store_at_start = {}

\* the i-th record of the topic lies before the committed offset of its
\* partition: a batch that held it was acknowledged
Consumed(i) ==
    Cardinality({j \in 1..i : Partition(log[j].key) = Partition(log[i].key)})
        <= offset[Partition(log[i].key)]

(***************************************************************************)
(* C18: two records of the topic that carry the same business event (the   *)
(* same fields but for the generated event_id: a client's retry after a    *)
(* publish timeout landed a second copy) have different event_ids (the     *)
(* event_id is all their values can differ in), and                        *)
(* once both are consumed the store holds exactly one item with that       *)
(* match_id and that event_timestamp.                                      *)
(***************************************************************************)
C18_RetryDuplicateOneItem ==
    \A i, j \in 1..Len(log) :
        (i < j /\ Business(log[i]) = Business(log[j])) =>
            /\ log[i].value # log[j].value
            /\ (Consumed(i) /\ Consumed(j)) =>
                  Cardinality({x \in store :
                        /\ Get(x, "match_id", Absent) = Business(log[i])["match_id"]
                        /\ Get(x, "event_timestamp", Absent)
                               = Get(Business(log[i]), "timestamp", Absent)}) = 1

\* the first submission of a goal timed out after the record landed, the
\* retry was acknowledged, both records are consumed and one item is stored
C18_Witness ==
    /\ prod["p1"].pc = "done" /\ prod["p1"].response.statusCode = 500
    /\ prod["p1"].sends = 1 /\ ~prod["p1"].acked
    /\ Answered200(Payload(M1, GoalText, TsGoal, Absent, Absent, Absent))
    /\ Submitted("p1") = Submitted("p2")
    /\ Len(log) = 2
    /\ Business(log[1]) = Business(log[2])
    /\ log[1].value # log[2].value
    /\ Consumed(1) /\ Consumed(2)
    /\ Cardinality(store) = 1


(***************************************************************************)
(* C19: the bulk write is atomic from the consumer's view: when            *)
(* batch_write_to_dynamodb has returned, either it returned the number of  *)
(* items it was given and every one of them is persisted, or it returned 0 *)
(* and the store is as it was when the invocation began.                   *)
(***************************************************************************)
C19_BulkWriteAtomic ==
    (c_pc \in {"Deciding", "Acked", "RetryWholeBatch"}) =>
        \/ /\ success_count = Len(processed_items)
           /\ store = PutAll(store_at_start, processed_items)
        \/ success_count = 0 /\ store = store_at_start


(***************************************************************************)
(* C20: there is no dead-letter path: an invocation whose batch holds a    *)
(* record that process_record drops is never acknowledged, on whichever    *)
(* delivery: it ends in RetryWholeBatch.  Its decodable records are still  *)
(* handed to the bulk write on every attempt, and when that write succeeds *)
(* they are all in the store.                                              *)
(***************************************************************************)
C20_PoisonBatchNeverAcked ==
    (c_pc \in Terminal /\ DroppedCount(event) >= 1) =>
        /\ c_pc = "RetryWholeBatch"
        /\ HandlerResult = Raised(success_count, TotalReceived(event))
        /\ success_count < TotalReceived(event)
        /\ Len(processed_items) = TotalReceived(event) - DroppedCount(event)
        /\ processed_items # <<>> => write_pos >= 1
        /\ success_count = Len(processed_items) =>
               store = PutAll(store_at_start, processed_items)

\* the second delivery of a batch of one good and one undecodable record:
\* the good record was written on the first delivery and again now, and the
\* invocation raised again
C20_Witness ==
    /\ c_pc = "RetryWholeBatch"
    /\ deliveries = 2
    /\ TotalReceived(event) = 2
    /\ DroppedCount(event) = 1
    /\ success_count = 1
    /\ write_pos = 2
    /\ store # {}
    /\ store = store_at_start


C26_SeasonDerivedOnly ==
    (fn_pc = "returned" /\ fn_in \notin UndecodableRecords) =>
        LET given == PayloadOf(fn_in)
            derived == {"season", "event_timestamp", "event_type_timestamp"}
        IN
        /\ fn_out # Dropped
        /\ Has(fn_out, "season")
        /\ fn_out["season"] = derive_season(Get(given, "timestamp", <<>>))
        /\ DOMAIN given \subseteq DOMAIN fn_out
        /\ DOMAIN fn_out \subseteq DOMAIN given \cup derived
        /\ \A k \in DOMAIN given \ derived : fn_out[k] = given[k]

\* a payload of August 2023 that carries a season of the client's
C26_Witness ==
    /\ fn_pc = "returned"
    /\ fn_in \notin UndecodableRecords
    /\ Get(PayloadOf(fn_in), "season", Absent) = ClientSeason
    /\ Get(PayloadOf(fn_in), "timestamp", Absent) = TsGoal
    /\ fn_out["season"] = SeasonText(2023, 2024)
    /\ fn_out["season"] # ClientSeason


(***************************************************************************)
(* C28: every event submit answered with 200 is turned by process_record   *)
(* into an item that has both primary-key attributes of the store,         *)
(* match_id and event_timestamp, also when the event was sent without      *)
(* timestamp.                                                              *)
(***************************************************************************)
C28_AcceptedEventHasKey ==
    \A p \in Producers :
        (prod[p].pc = "done" /\ prod[p].response.statusCode = 200) =>
            LET item == process_record(KafkaRecord(B64(Published(p).value))) IN
            /\ item # Dropped
            /\ Has(item, "match_id")
            /\ Has(item, "event_timestamp")


(***************************************************************************)
(* C29: an invocation whose event carries no records (no 'records' field,  *)
(* no partitions, or only empty record lists) never enters the bulk write, *)
(* leaves the store as it was, and is acknowledged with status 200 and a   *)
(* count of 0.                                                             *)
(***************************************************************************)
C29_NoRecordsAcked ==
    (c_pc # "Idle" /\ TotalReceived(event) = 0) =>
        /\ c_pc \notin {"Writing", "RetryWholeBatch"}
        /\ write_pos = 0
        /\ store = store_at_start
        /\ c_pc = "Acked" =>
              /\ HandlerResult = Returned(0)
              /\ success_count = 0 /\ total_records = 0

\* the three shapes of an event without records, acknowledged on a second
\* delivery with the store holding an item of the first
C29_Witness ==
    /\ c_pc = "Acked"
    /\ deliveries = 2
    /\ \/ ~Has(event, "records")
       \/ event["records"] = <<>>
       \/ event["records"] = << <<>> >>
    /\ store # {}
    /\ store = store_at_start


C27_AckedBatchLosesNoEvent ==
    (c_pc = "Acked" /\ TotalReceived(event) >= 1) =>
        \A i \in 1..TotalReceived(event) :
            process_record(AllRecords(event)[i]) \in store


(***************************************************************************)
(* C23 as stated: every invocation passes through the Writing phase (one   *)
(* bulk-write call) before its outcome is decided: an invocation that has  *)
(* reached Acked or RetryWholeBatch has entered the bulk write.            *)
(***************************************************************************)
C23_WritingAlwaysEntered ==
    c_pc \in Terminal => write_pos >= 1

\* the phase changes of lambda_handler: the loop is skipped without 'records',
\* the bulk write is skipped when nothing was decoded
PhaseOrder ==
    (c_pc' # c_pc) =>
        \/ c_pc \in Terminal \cup {"Idle"} /\ c_pc' = "Received"
        \/ c_pc = "Received" /\ c_pc' = "Decoding" /\ Has(event, "records")
        \/ c_pc = "Received" /\ c_pc' = "Deciding" /\ ~Has(event, "records")
        \/ c_pc = "Decoding" /\ c_pc' = "Writing" /\ processed_items # <<>>
        \/ c_pc = "Decoding" /\ c_pc' = "Deciding" /\ processed_items = <<>>
        \/ c_pc = "Writing" /\ c_pc' = "Deciding"
        \/ c_pc = "Deciding" /\ c_pc' \in Terminal

(***************************************************************************)
(* C23 as amended: every invocation follows Received, Decoding (each       *)
(* record decoded and enriched in turn), Writing, then exactly one of      *)
(* Acked or RetryWholeBatch, in that order, where Decoding is skipped when *)
(* the event has no 'records' and Writing is skipped when no record was    *)
(* decoded; when a record was decoded the bulk write is entered exactly    *)
(* once before the outcome is decided; the store changes in the Writing    *)
(* phase only, so not after the outcome; and the invocation always reaches *)
(* one of the two outcomes.                                                *)
(***************************************************************************)
C23_PhasesInOrder ==
    /\ [][PhaseOrder]_vars
    /\ [][store' # store => (c_pc = "Writing" /\ c_pc' \in {"Writing", "Deciding"})]_vars
    /\ []((c_pc \in Terminal \cup {"Deciding"}) =>
             ((write_pos >= 1) <=> (processed_items # <<>>)))
    /\ LoopEnds => ((c_pc = "Received") ~> (c_pc \in Terminal))

\* an invocation whose two records were both dropped has raised without
\* entering the bulk write
C23_Witness ==
    /\ c_pc = "RetryWholeBatch"
    /\ total_records = 2
    /\ processed_items = <<>>
    /\ write_pos = 0
    /\ store = store_at_start



(***************************************************************************)
(* C21: no intermediate state of a consumer invocation is durable: when an *)
(* invocation crashes before acknowledgment (while decoding, enriching or  *)
(* writing), the store at that moment holds nothing from that invocation,  *)
(* that is, the table is as it was when the invocation began.              *)
(***************************************************************************)
C21_CrashLeavesNothing == c_pc = "Crashed" => store = store_at_start


\* the table after one batch is processed and then the other, from empty
Serial(first, second) == PutAll(PutAll({}, first), second)

(***************************************************************************)
(* C22: two invocations that run at the same time on overlapping ranges of *)
(* a partition, and so write overlapping keys, leave the table, once both  *)
(* have written everything, as processing the two batches one after the    *)
(* other leaves it (in one order or the other), whatever the interleaving  *)
(* of their physical writes; records that share (match_id,                 *)
(* event_timestamp) and differ in content are included.                    *)
(***************************************************************************)
C22_InterleavingsAgree ==
    (WroteAll /\ other.pc = "Done") =>
        store \in {Serial(processed_items, other.items),
                   Serial(other.items, processed_items)}

=============================================================================
